---- MODULE Spec2Model ----
(***************************************************************************)
(* mysql2-extended: connection / transaction lifecycle of MySQL2Extended,  *)
(* Transaction and QueryBase.execute (src/src/index.ts,                    *)
(* src/src/query-base.ts) over a mysql2 pool or a fixed connection.        *)
(*                                                                         *)
(* A process is one chain of awaited calls.  Processes interleave at the   *)
(* awaits of the code: pool.getConnection / onNewConnection, and           *)
(* con.query.  Code that runs between two awaits is one step.              *)
(***************************************************************************)
EXTENDS Integers, Sequences, FiniteSets, TLC

NumCons == 2
NumTx == 1
MaxCalls == 3
MaxRows == 2
MaxLimit == 2
MaxOffset == 1
MaxRet == 2
MaxSet == 2

Cons == 1..NumCons
Txs == 1..NumTx

\* two chains of awaited calls run concurrently
Procs == {"p1", "p2"}

\* SQL text handed to execute() by query/select/insert/update/delete on the
\* MySQL2Extended; the k-th such call on a Transaction sends Stmt(k)
UserSql == "Q"
Stmt(k) == "S" \o ToString(k)
Actions == {"COMMIT", "ROLLBACK"}

\* errors
EDriver == "driver rejected the statement"
EOnQuery == "onQuery threw"
EOnNewConnection == "onNewConnection threw"
ECallback == "E"
EAlreadyBegan == "Transaction has already began"

\* outcomes of the external collaborators
DriverOutcomes == {"ok", EDriver}
OnQueryOutcomes == {"ok", EOnQuery}
OnNewConnectionOutcomes == {"ok", EOnNewConnection}

VARIABLES
    driver,         \* "pool" | "fixed": what MySQL2Extended was constructed over
    conHasRelease,  \* [Cons -> BOOLEAN]: 'release' in con
    free,           \* [Cons -> BOOLEAN]: con is in its pool's free list
    inited,         \* [Cons -> BOOLEAN]: con.mysql2ExtendedAlreadyInited
    logs,           \* [Cons -> Seq]: statements passed to con.query, in order
    releases,       \* [Cons -> Nat]: number of con.release() calls
    tx,             \* [Txs -> record]: the Transaction objects
    termLog,        \* [Txs -> Seq]: the commit()/rollback() calls made on a Transaction
    proc,           \* [Procs -> record]: the chains of awaited calls
    event,          \* the call that settled in the last step, with its outcome
    ncalls,         \* number of calls made so far
    hookCalls,      \* [Cons -> Nat]: invocations of opts.onNewConnection(con)
    onQueryCall,    \* the opts.onQuery call made in the last step, with its outcome
    request,        \* a statement-building call on a fresh instance: its arguments
    result          \* what that call handed to execute and how it settled

vars == <<driver, conHasRelease, free, inited, logs, releases, tx, termLog, proc, event,
          ncalls, hookCalls, onQueryCall, request, result>>

\* a fixed single connection is connection 1
FixedCon == CHOOSE c \in Cons : \A d \in Cons : c <= d

\* the statement the onNewConnection hook issues on the raw connection
HookSql == "H"

NoOnQuery == [sql |-> "none", con |-> 0, res |-> "none"]

NoCall == [op |-> "none"]
NoResult == [err |-> "none"]

NoEvent == [p |-> "none", call |-> "none", t |-> 0, con |-> 0, res |-> "none"]

NoTx == [exists |-> FALSE, avail |-> FALSE, managed |-> FALSE, con |-> 0,
         hasBegin |-> FALSE, lastAction |-> "none", nq |-> 0]

IdleProc == [pc |-> "idle", op |-> "none", t |-> 0, con |-> 0, sql |-> "none",
             mt |-> "none", mtx |-> 0, err |-> "none", issued |-> <<>>,
             cbCtl |-> FALSE, cbEnd |-> "none", envFail |-> FALSE]

Init ==
    /\ driver \in {"pool", "fixed"}
    /\ conHasRelease \in [Cons -> BOOLEAN]
    /\ \A c \in Cons : (driver = "pool" \/ c # FixedCon) => conHasRelease[c]
    /\ free = [c \in Cons |-> driver = "pool"]
    /\ inited = [c \in Cons |-> FALSE]
    /\ logs = [c \in Cons |-> <<>>]
    /\ releases = [c \in Cons |-> 0]
    /\ tx = [t \in Txs |-> NoTx]
    /\ termLog = [t \in Txs |-> <<>>]
    /\ proc = [p \in Procs |-> IdleProc]
    /\ event = NoEvent
    /\ ncalls = 0
    /\ hookCalls = [c \in Cons |-> 0]
    /\ onQueryCall = NoOnQuery
    /\ request = NoCall
    /\ result = NoResult

----
\* QueryBase.isPool
isPool(d) == d = "pool"

\* a closeConnection that never finds a release capability
isPoolConnection_Never(c) == FALSE

\* QueryBase.isPoolConnection
isPoolConnection(c) == conHasRelease[c]

\* the message of Transaction.validateCleanAndMarkDirty
CannotMsg(action, last) == "Cannot " \o action \o " transaction. Already got " \o last

\* a validateCleanAndMarkDirty that marks and never throws
validateCleanAndMarkDirty_NoThrow(last, action) == [err |-> "none", lastAction |-> action]

\* Transaction.validateCleanAndMarkDirty: the error thrown ("none" when it returns)
\* and the value of lastAction afterwards
validateCleanAndMarkDirty(last, action) ==
    IF last = "none"
    THEN [err |-> "none", lastAction |-> action]
    ELSE [err |-> CannotMsg(action, last), lastAction |-> last]

\* Transaction._begin: the guard on hasBegin
beginGuard(t) == IF t.hasBegin THEN EAlreadyBegan ELSE "none"

\* a Transaction that asks the pool again instead of keeping its connection
TransactionGetConnection_Pool(t) ==
    IF \E c \in Cons : free[c] THEN CHOOSE c \in Cons : free[c] ELSE t.con

\* Transaction.getConnection
TransactionGetConnection(t) == t.con

\* QueryBase.closeConnection: its effect on the pool's free list
closeConnectionFree(f, c) == IF isPoolConnection(c) THEN [f EXCEPT ![c] = TRUE] ELSE f

\* QueryBase.closeConnection: its calls of con.release()
closeConnectionReleases(r, c) == IF isPoolConnection(c) THEN [r EXCEPT ![c] = @ + 1] ELSE r

\* an execute that calls onQuery and then sends nothing
conQuery_Dropped(l, c, sql, t) == l

\* con.query(sql, values): the driver records the statement
conQuery(l, c, sql, t) == [l EXCEPT ![c] = Append(@, [sql |-> sql, tx |-> t])]

----
Idle(p) == proc[p].pc = "idle" /\ proc[p].mt = "none"

\* errors that come from the driver or from a hook, not from the library
EnvErrors == {EDriver, EOnQuery, EOnNewConnection}

\* a call settles and its chain is idle again
Return(r) == [r EXCEPT !.pc = "idle", !.op = "none", !.t = 0, !.con = 0, !.sql = "none"]

\* The continuation of an awaited library call by chain p that settles with res ("ok"
\* or the error): the chain's next state r and the settlement ev its caller sees.
\* Outside transaction() the caller gets the outcome; inside it the try/catch of
\* MySQL2Extended.transaction decides.
Settle(p, r0, call, t, c, res) ==
    LET q == [r0 EXCEPT !.envFail = @ \/ (r0.mt # "none" /\ res \in EnvErrors)]
        ev(k, x) == [p |-> p, call |-> k, t |-> t, con |-> c, res |-> x]
    IN  CASE r0.mt = "none" -> [r |-> Return(q), ev |-> ev(call, res)]
          [] r0.mt = "begin" ->
                IF res = "ok"
                THEN [r |-> [q EXCEPT !.pc = "cb", !.mt = "callback", !.op = "none",
                                      !.sql = "none"],
                      ev |-> NoEvent]
                ELSE [r |-> Return([q EXCEPT !.mt = "done"]), ev |-> ev("transaction", res)]
          [] r0.mt = "callback" ->
                [r |-> [q EXCEPT !.pc = "cb", !.op = "none", !.sql = "none"],
                 ev |-> ev(call, res)]
          [] r0.mt = "commit" ->
                IF res = "ok"
                THEN [r |-> Return([q EXCEPT !.mt = "done"]), ev |-> ev("transaction", "r")]
                ELSE [r |-> [q EXCEPT !.pc = "catch", !.op = "none", !.sql = "none",
                                      !.err = res],
                      ev |-> NoEvent]
          [] OTHER ->
                [r |-> Return([q EXCEPT !.mt = "done"]),
                 ev |-> ev("transaction", IF res = "ok" THEN r0.err ELSE res)]

\* QueryBase.execute from the onQuery hook on: the hook may throw; otherwise the
\* statement goes to con.query and the call awaits the driver
execute(p, r, c, sql, t, call) ==
    \E h \in OnQueryOutcomes :
        /\ onQueryCall' = [sql |-> sql, con |-> c, res |-> h]
        /\ IF h = "ok"
           THEN /\ logs' = conQuery(logs, c, sql, t)
                /\ proc' = [proc EXCEPT ![p] =
                       [r EXCEPT !.pc = "sent", !.op = call, !.t = t, !.con = c, !.sql = sql]]
                /\ event' = NoEvent
           ELSE /\ logs' = logs
                /\ proc' = [proc EXCEPT ![p] = Settle(p, r, call, t, c, h).r]
                /\ event' = Settle(p, r, call, t, c, h).ev

\* pool.getConnection(): the connections the pool may hand out.  A connection the
\* pool has not opened yet is like any other such, so the lowest stands for them.
poolGetConnection ==
    {c \in Cons : free[c] /\ (inited[c] \/ \A d \in Cons : (free[d] /\ ~inited[d]) => c <= d)}

\* a getConnection that never takes a connection for new
isNewConnection_Never(d, marked) == FALSE

\* QueryBase.getConnection: isNewConnection, given the driver and the connection's
\* mysql2ExtendedAlreadyInited marker
isNewConnection(d, marked) == IF isPool(d) THEN ~marked ELSE TRUE

\* opts.onNewConnection(con): the hook issues its statement on the raw connection
\* and resolves, or throws
onNewConnection(l, c, h) ==
    IF h = "ok" THEN [l EXCEPT ![c] = Append(@, [sql |-> HookSql, tx |-> 0])] ELSE l

\* QueryBase.getConnection of a MySQL2Extended: a connection of the pool, or the
\* fixed connection; the onNewConnection hook when the connection counts as new
getConnection(p, call, sql, managed) ==
    /\ Idle(p)
    /\ ncalls < MaxCalls
    /\ \E c \in Cons :
        /\ IF isPool(driver) THEN c \in poolGetConnection ELSE c = FixedCon
        /\ LET new == isNewConnection(driver, inited[c])
               r == [proc[p] EXCEPT !.mt = IF managed THEN "begin" ELSE "none"]
           IN  \E h \in (IF new THEN OnNewConnectionOutcomes ELSE {"ok"}) :
                 /\ hookCalls' = IF new THEN [hookCalls EXCEPT ![c] = @ + 1] ELSE hookCalls
                 /\ logs' = IF new THEN onNewConnection(logs, c, h) ELSE logs
                 /\ free' = IF isPool(driver) THEN [free EXCEPT ![c] = FALSE] ELSE free
                 /\ inited' = IF isPool(driver) THEN [inited EXCEPT ![c] = TRUE] ELSE inited
                 /\ proc' = [proc EXCEPT ![p] =
                        IF h = "ok"
                        THEN [r EXCEPT !.pc = "gotcon", !.op = call, !.con = c, !.sql = sql]
                        ELSE Settle(p, r, call, 0, c, h).r]
                 /\ event' = IF h = "ok" THEN NoEvent ELSE Settle(p, r, call, 0, c, h).ev
    /\ ncalls' = ncalls + 1
    /\ onQueryCall' = NoOnQuery
    /\ UNCHANGED <<request, result>>
    /\ UNCHANGED <<driver, conHasRelease, releases, tx, termLog>>

FreeTxs == {t \in Txs : ~tx[t].exists}
Beginning == {p \in Procs : proc[p].pc = "gotcon" /\ proc[p].op = "begin"}

\* query / select / insert / update / delete on the MySQL2Extended
query(p) == getConnection(p, "query", UserSql, FALSE)

\* MySQL2Extended.begin up to the connection
begin(p) ==
    /\ Cardinality(FreeTxs) > Cardinality(Beginning)
    /\ getConnection(p, "begin", "BEGIN", FALSE)

\* MySQL2Extended.transaction up to the connection
transaction(p) ==
    /\ Cardinality(FreeTxs) > Cardinality(Beginning)
    /\ getConnection(p, "begin", "BEGIN", TRUE)

\* QueryBase.execute of a MySQL2Extended once its connection is there
ExecuteDb(p) ==
    /\ proc[p].pc = "gotcon"
    /\ proc[p].op = "query"
    /\ execute(p, proc[p], proc[p].con, proc[p].sql, 0, "query")
    /\ UNCHANGED <<request, result>>
    /\ UNCHANGED <<driver, conHasRelease, free, inited, releases, tx, termLog, ncalls,
                   hookCalls>>

\* MySQL2Extended.begin once its connection is there: new Transaction(con), _begin()
NewTransaction(p) ==
    /\ proc[p].pc = "gotcon"
    /\ proc[p].op = "begin"
    /\ LET t == CHOOSE x \in FreeTxs : \A y \in FreeTxs : x <= y
           new == [NoTx EXCEPT !.exists = TRUE, !.con = proc[p].con,
                               !.managed = proc[p].mt = "begin"]
           r == [proc[p] EXCEPT !.mtx = IF proc[p].mt = "begin" THEN t ELSE 0]
       IN  /\ tx' = [tx EXCEPT ![t] = new]
           /\ IF beginGuard(new) = "none"
              THEN execute(p, r, TransactionGetConnection(new), "BEGIN", t, "begin")
              ELSE /\ logs' = logs
                   /\ onQueryCall' = NoOnQuery
                   /\ proc' = [proc EXCEPT ![p] =
                          Settle(p, r, "begin", t, proc[p].con, beginGuard(new)).r]
                   /\ event' = Settle(p, r, "begin", t, proc[p].con, beginGuard(new)).ev
    /\ UNCHANGED <<request, result>>
    /\ UNCHANGED <<driver, conHasRelease, free, inited, releases, termLog, ncalls, hookCalls>>

\* who may call a method of Transaction t: a chain that holds the handle begin()
\* returned, or the callback transaction() handed it to
InCallback(p, t) == proc[p].pc = "cb" /\ proc[p].mtx = t
Caller(p, t) ==
    /\ tx[t].exists
    /\ ncalls < MaxCalls
    /\ \/ Idle(p) /\ tx[t].avail
       \/ InCallback(p, t)

\* Transaction.commit / Transaction.rollback, called by chain p in state r
terminal(p, r, t, a) ==
    LET v == validateCleanAndMarkDirty(tx[t].lastAction, a)
        c == TransactionGetConnection(tx[t])
    IN  /\ tx' = [tx EXCEPT ![t].lastAction = v.lastAction]
        /\ termLog' = [termLog EXCEPT ![t] = Append(@, [action |-> a, err |-> v.err])]
        /\ IF v.err = "none"
           THEN execute(p, r, c, a, t, a)
           ELSE /\ logs' = logs
                /\ onQueryCall' = NoOnQuery
                /\ proc' = [proc EXCEPT ![p] = Settle(p, r, a, t, c, v.err).r]
                /\ event' = Settle(p, r, a, t, c, v.err).ev

\* query / select / insert / update / delete on a Transaction
Transaction_query(p, t) ==
    /\ Caller(p, t)
    /\ LET s == Stmt(tx[t].nq + 1)
           r == [proc[p] EXCEPT !.issued = IF InCallback(p, t) THEN Append(@, s) ELSE @]
       IN  execute(p, r, TransactionGetConnection(tx[t]), s, t, "txquery")
    /\ tx' = [tx EXCEPT ![t].nq = @ + 1]
    /\ ncalls' = ncalls + 1
    /\ UNCHANGED <<request, result>>
    /\ UNCHANGED <<driver, conHasRelease, free, inited, releases, termLog, hookCalls>>

\* Transaction.commit called by the user or the callback
commit(p, t) ==
    /\ Caller(p, t)
    /\ terminal(p, [proc[p] EXCEPT !.cbCtl = @ \/ InCallback(p, t)], t, "COMMIT")
    /\ ncalls' = ncalls + 1
    /\ UNCHANGED <<request, result>>
    /\ UNCHANGED <<driver, conHasRelease, free, inited, releases, hookCalls>>

\* Transaction.rollback called by the user or the callback
rollback(p, t) ==
    /\ Caller(p, t)
    /\ terminal(p, [proc[p] EXCEPT !.cbCtl = @ \/ InCallback(p, t)], t, "ROLLBACK")
    /\ ncalls' = ncalls + 1
    /\ UNCHANGED <<request, result>>
    /\ UNCHANGED <<driver, conHasRelease, free, inited, releases, hookCalls>>

\* Transaction._begin called again on a handle begin() returned
Transaction_begin(p, t) ==
    /\ Caller(p, t)
    /\ Idle(p)
    /\ IF beginGuard(tx[t]) = "none"
       THEN execute(p, proc[p], TransactionGetConnection(tx[t]), "BEGIN", t, "_begin")
       ELSE /\ logs' = logs
            /\ onQueryCall' = NoOnQuery
            /\ proc' = [proc EXCEPT ![p] =
                   Settle(p, proc[p], "_begin", t, tx[t].con, beginGuard(tx[t])).r]
            /\ event' = Settle(p, proc[p], "_begin", t, tx[t].con, beginGuard(tx[t])).ev
    /\ ncalls' = ncalls + 1
    /\ UNCHANGED <<request, result>>
    /\ UNCHANGED <<driver, conHasRelease, free, inited, releases, tx, termLog, hookCalls>>

\* MySQL2Extended.transaction: the callback returns, commit() is called
callback_return(p) ==
    /\ proc[p].pc = "cb"
    /\ terminal(p, [proc[p] EXCEPT !.mt = "commit", !.cbEnd = "returned"],
                proc[p].mtx, "COMMIT")
    /\ UNCHANGED <<request, result>>
    /\ UNCHANGED <<driver, conHasRelease, free, inited, releases, ncalls, hookCalls>>

\* MySQL2Extended.transaction: the callback throws E, caught by the catch block
callback_throw(p) ==
    /\ proc[p].pc = "cb"
    /\ proc' = [proc EXCEPT ![p] =
           [@ EXCEPT !.pc = "catch", !.err = ECallback, !.cbEnd = "threw"]]
    /\ event' = NoEvent
    /\ onQueryCall' = NoOnQuery
    /\ UNCHANGED <<request, result>>
    /\ UNCHANGED <<driver, conHasRelease, free, inited, logs, releases, tx, termLog, ncalls,
                   hookCalls>>

\* MySQL2Extended.transaction: the catch block calls rollback()
transaction_catch(p) ==
    /\ proc[p].pc = "catch"
    /\ terminal(p, [proc[p] EXCEPT !.mt = "rollback"], proc[p].mtx, "ROLLBACK")
    /\ UNCHANGED <<request, result>>
    /\ UNCHANGED <<driver, conHasRelease, free, inited, releases, ncalls, hookCalls>>

\* QueryBase.execute after con.query: the driver resolves and closeConnection(con)
\* runs, or the driver rejects and execute throws
Complete(p) ==
    /\ proc[p].pc = "sent"
    /\ LET r == proc[p]
       IN  \E d \in DriverOutcomes :
             /\ free' = IF d = "ok" THEN closeConnectionFree(free, r.con) ELSE free
             /\ releases' = IF d = "ok" THEN closeConnectionReleases(releases, r.con)
                            ELSE releases
             /\ tx' = IF r.op = "begin" /\ d = "ok" /\ r.mt = "none"
                      THEN [tx EXCEPT ![r.t].avail = TRUE] ELSE tx
             /\ proc' = [proc EXCEPT ![p] = Settle(p, r, r.op, r.t, r.con, d).r]
             /\ event' = Settle(p, r, r.op, r.t, r.con, d).ev
    /\ onQueryCall' = NoOnQuery
    /\ UNCHANGED <<request, result>>
    /\ UNCHANGED <<driver, conHasRelease, inited, logs, termLog, ncalls, hookCalls>>

Next ==
    \E p \in Procs :
        \/ query(p)
        \/ begin(p)
        \/ transaction(p)
        \/ ExecuteDb(p)
        \/ NewTransaction(p)
        \/ \E t \in Txs : Transaction_query(p, t)
        \/ \E t \in Txs : commit(p, t)
        \/ \E t \in Txs : rollback(p, t)
        \/ \E t \in Txs : Transaction_begin(p, t)
        \/ callback_return(p)
        \/ callback_throw(p)
        \/ transaction_catch(p)
        \/ Complete(p)

Spec == Init /\ [][Next]_vars

----
\* Statement building: select / insert / upsert / update / delete, queryOne,
\* selectOne and getLastInsertId of QueryBase (src/src/query-base.ts).
\*
\* A bind value is a scalar, null or a list of scalars.  A condition, a data map and
\* a row are JavaScript objects: they are sequences of key/value entries in the
\* order Object.keys iterates them, with distinct keys.

Table == "t"
Cols == {"a", "b", "c"}

\* undefined, for an optional number
NoNum == 0 - 1

Scalar(n) == [kind |-> "scalar", items |-> <<n>>]
Null == [kind |-> "null", items |-> <<>>]
List(s) == [kind |-> "list", items |-> s]

\* the values a condition binds to a column
CondValuesOf(k) ==
    CASE k = "a" -> {Scalar(7), Null}
      [] k = "b" -> {List(<<7, 8>>), Scalar(8)}
      [] OTHER -> {Null}

\* the value a data map of update binds to a column
DataValuesOf(k) == {Scalar(IF k = "a" THEN 1 ELSE IF k = "b" THEN 2 ELSE 3)}

\* the objects with at most n keys whose values are drawn from vals
Objects(vals, n) ==
    UNION {{[i \in 1..m |-> [k |-> ks[i], v |-> vs[i]]] :
                ks \in {f \in [1..m -> Cols] : \A i, j \in 1..m : f[i] = f[j] => i = j},
                vs \in [1..m -> vals]} : m \in 0..n}

Conditions ==
    {o \in Objects(UNION {CondValuesOf(k) : k \in Cols}, Cardinality(Cols)) :
        \A i \in 1..Len(o) : o[i].v \in CondValuesOf(o[i].k)}
DataMaps ==
    {o \in Objects(UNION {DataValuesOf(k) : k \in Cols}, MaxSet) :
        \A i \in 1..Len(o) : o[i].v \in DataValuesOf(o[i].k)}

\* an Object.values that lists the values last key first
Values_Reversed(o) == [i \in 1..Len(o) |-> o[Len(o) + 1 - i].v]

\* an Object.keys that lists the keys last key first
Keys_Reversed(o) == [i \in 1..Len(o) |-> o[Len(o) + 1 - i].k]

\* Object.keys, Object.values
Keys(o) == [i \in 1..Len(o) |-> o[i].k]
Values(o) == [i \in 1..Len(o) |-> o[i].v]

\* the rows of an insert: row i binds 10 * i + j to its j-th key
RowShapes == {f \in UNION {[1..m -> Cols] : m \in 1..Cardinality(Cols)} :
                 \A i, j \in 1..Len(f) : f[i] = f[j] => i = j}
RowOf(shape, i) == [j \in 1..Len(shape) |-> [k |-> shape[j], v |-> Scalar(10 * i + j)]]
RowLists == UNION {{[i \in 1..n |-> RowOf(shapes[i], i)] : shapes \in [1..n -> RowShapes]} :
                      n \in 0..MaxRows}

\* the orderings of an options value: absent, one pair, or a list of pairs (which
\* may be empty)
Pair1 == <<"a", "asc">>
Pair2 == <<"b", "DESC">>
Orders ==
    {[present |-> FALSE, single |-> FALSE, pairs |-> <<>>],
     [present |-> TRUE, single |-> TRUE, pairs |-> <<Pair1>>],
     [present |-> TRUE, single |-> FALSE, pairs |-> <<Pair2>>],
     [present |-> TRUE, single |-> FALSE, pairs |-> <<Pair2, Pair1>>],
     [present |-> TRUE, single |-> FALSE, pairs |-> <<>>]}

Opts == [order : Orders, limit : NoNum..MaxLimit, offset : NoNum..MaxOffset]
NoOpts == [order |-> [present |-> FALSE, single |-> FALSE, pairs |-> <<>>],
           limit |-> NoNum, offset |-> NoNum]

\* the column selections of select: '*' or a list of columns
ColSels == {[all |-> TRUE, list |-> <<>>], [all |-> FALSE, list |-> <<"a">>],
            [all |-> FALSE, list |-> <<"b", "a">>]}

\* a condition argument: absent (undefined) or a map
CondArgs == {[present |-> FALSE, map |-> <<>>]} \cup
            {[present |-> TRUE, map |-> o] : o \in Conditions}

\* JavaScript truthiness of an optional number
Truthy(n) == n # NoNum /\ n # 0

\* Array.prototype.join
RECURSIVE join(_, _)
join(strs, sep) ==
    IF strs = <<>> THEN ""
    ELSE IF Len(strs) = 1 THEN strs[1]
    ELSE strs[1] \o sep \o join(Tail(strs), sep)

\* the concatenation of a sequence of sequences
RECURSIVE Flatten(_)
Flatten(ss) == IF ss = <<>> THEN <<>> ELSE ss[1] \o Flatten(Tail(ss))

\* String.prototype.toUpperCase on a direction
toUpperCase(dir) ==
    CASE dir \in {"asc", "Asc", "ASC"} -> "ASC"
      [] dir \in {"desc", "Desc", "DESC"} -> "DESC"

\* the backtick, which a string of this language cannot hold: ^ stands for it
Backtick == "^"

\* QueryBase.strWrap
strWrap(str) == Backtick \o str \o Backtick

\* an applyWhereCondition that binds the null of an IS NULL clause too
applyWhereCondition_BindsNull(cond, values) ==
    LET clause(e) ==
            IF e.v.kind = "null" THEN Backtick \o e.k \o Backtick \o " IS NULL"
            ELSE Backtick \o e.k \o Backtick
                 \o (IF e.v.kind = "list" THEN " IN(?)" ELSE " = ?")
    IN  [sql |-> " WHERE " \o join([i \in 1..Len(cond) |-> clause(cond[i])], " AND "),
         values |-> values \o [i \in 1..Len(cond) |-> cond[i].v]]

\* QueryBase.applyWhereCondition: the text, and values after the pushes
applyWhereCondition(cond, values) ==
    LET clause(e) ==
            IF e.v.kind = "null" THEN Backtick \o e.k \o Backtick \o " IS NULL"
            ELSE Backtick \o e.k \o Backtick
                 \o (IF e.v.kind = "list" THEN " IN(?)" ELSE " = ?")
        pushed(e) == IF e.v.kind = "null" THEN <<>> ELSE <<e.v>>
    IN  [sql |-> " WHERE " \o join([i \in 1..Len(cond) |-> clause(cond[i])], " AND "),
         values |-> values \o Flatten([i \in 1..Len(cond) |-> pushed(cond[i])])]

\* QueryBase.applyOrder: Array.isArray(order[0]) ? order : [order].  The order value
\* itself is the pair when a single pair was given, and the list otherwise.
orderings(order) ==
    IF ~order.single /\ order.pairs # <<>> THEN order.pairs
    ELSE <<IF order.single THEN order.pairs[1] ELSE <<>>>>

ETypeErrorOrder == "TypeError: Cannot read properties of undefined (reading 'toUpperCase')"

\* QueryBase.applyOrder: o[1].toUpperCase() throws on an ordering without direction
applyOrderThrows(order) == \E i \in 1..Len(orderings(order)) : Len(orderings(order)[i]) < 2

\* QueryBase.applyOrder: the text, when it does not throw
applyOrder(order) ==
    " ORDER BY " \o
    join([i \in 1..Len(orderings(order)) |->
             strWrap(orderings(order)[i][1]) \o " "
                \o toUpperCase(orderings(order)[i][2])], ", ")

\* an applyLimit that binds the limit before the offset
applyLimit_LimitFirst(values, limit, offset) ==
    IF Truthy(offset)
    THEN [sql |-> " LIMIT ?, ?", values |-> values \o <<Scalar(limit), Scalar(offset)>>]
    ELSE [sql |-> " LIMIT ?", values |-> Append(values, Scalar(limit))]

\* QueryBase.applyLimit: the text, and values after the pushes
applyLimit(values, limit, offset) ==
    IF Truthy(offset)
    THEN [sql |-> " LIMIT ?, ?", values |-> values \o <<Scalar(offset), Scalar(limit)>>]
    ELSE [sql |-> " LIMIT ?", values |-> Append(values, Scalar(limit))]

NoStmt == [sql |-> "none", values |-> <<>>]
Built(sql, values) == [err |-> "none", sent |-> TRUE, stmt |-> [sql |-> sql, values |-> values]]
Thrown(err) == [err |-> err, sent |-> FALSE, stmt |-> NoStmt]
NoOp == [err |-> "none", sent |-> FALSE, stmt |-> NoStmt]

\* the options carry an order on which applyOrder throws
OrderThrows(opt) == opt.order.present /\ applyOrderThrows(opt.order)

\* WHERE, ORDER BY and LIMIT as select, update and delete append them to [sql, values]
Clauses(s, cond, opt, offset) ==
    LET w == IF cond.present THEN applyWhereCondition(cond.map, s.values)
             ELSE [sql |-> "", values |-> s.values]
        o == IF opt.order.present THEN applyOrder(opt.order) ELSE ""
        l == IF Truthy(opt.limit) THEN applyLimit(w.values, opt.limit, offset)
             ELSE [sql |-> "", values |-> w.values]
    IN  [sql |-> s.sql \o w.sql \o o \o l.sql, values |-> l.values]

\* QueryBase.select up to execute
buildSelect(cols, cond, opt) ==
    LET head == "SELECT" \o
                (IF cols.all THEN " *"
                 ELSE " " \o join([i \in 1..Len(cols.list) |-> strWrap(cols.list[i])], ", "))
                \o " FROM " \o strWrap(Table)
        s == Clauses([sql |-> head, values |-> <<>>], cond, opt, opt.offset)
    IN  IF OrderThrows(opt) THEN Thrown(ETypeErrorOrder) ELSE Built(s.sql, s.values)

EAtLeastOneRow == "There must be atleast one row to insert."
ETypeError == "TypeError: Cannot convert undefined or null to object"

\* the data argument of insert: one row, or a list of rows
InsertData == {[isArray |-> TRUE, value |-> rows] : rows \in RowLists} \cup
              {[isArray |-> FALSE, value |-> rows[1]] : rows \in {l \in RowLists : Len(l) = 1}}

\* an insert that lets an empty row list through
hasRows_Unchecked(rows) == TRUE

\* QueryBase.insert: rows.length > 0
hasRows(rows) == Len(rows) > 0

\* an upsert that overwrites with the new value even when it is null
duplicateKeyUpdate_Plain(k) == strWrap(k) \o " = VALUES(" \o strWrap(k) \o ")"

\* QueryBase.insert: the assignment of the upsert branch for one column
duplicateKeyUpdate(k) ==
    strWrap(k) \o " = COALESCE(VALUES(" \o strWrap(k) \o "), " \o strWrap(k) \o ")"

\* QueryBase.insert up to execute
buildInsert(data, upsert) ==
    LET rows == IF ~data.isArray THEN <<data.value>> ELSE data.value
        firstRowKeys == Keys(rows[1])
        valuePlaceholder == "(" \o join([i \in 1..Len(firstRowKeys) |-> "?"], ", ") \o ")"
        sql == "INSERT INTO " \o strWrap(Table) \o " ("
               \o join([i \in 1..Len(firstRowKeys) |-> strWrap(firstRowKeys[i])], ", ")
               \o ") VALUES "
               \o join([i \in 1..Len(rows) |-> valuePlaceholder], ", ")
        tail == IF upsert
                THEN " ON DUPLICATE KEY UPDATE "
                     \o join([i \in 1..Len(firstRowKeys) |-> duplicateKeyUpdate(firstRowKeys[i])], ", ")
                ELSE ""
    IN  IF ~hasRows(rows) THEN Thrown(EAtLeastOneRow)
        ELSE IF rows = <<>> THEN Thrown(ETypeError)
        ELSE Built(sql \o tail, Flatten([i \in 1..Len(rows) |-> Values(rows[i])]))

EOffsetUpdate == "offset not supported on updates using MySQL"
EOffsetDelete == "offset not supported on deletes using MySQL"

\* an update that sends its statement for an empty data map too
noKeys_Never(keys) == FALSE

\* QueryBase.update: !keys.length
noKeys(keys) == Len(keys) = 0

\* QueryBase.update up to execute
buildUpdate(data, cond, opt) ==
    LET keys == Keys(data)
        head == "UPDATE " \o strWrap(Table) \o " SET " \o
                join([i \in 1..Len(keys) |-> strWrap(keys[i]) \o " = ?"], ", ")
        s == Clauses([sql |-> head, values |-> Values(data)], cond, opt, NoNum)
    IN  IF noKeys(keys) THEN NoOp
        ELSE IF OrderThrows(opt) THEN Thrown(ETypeErrorOrder)
        ELSE IF Truthy(opt.offset) THEN Thrown(EOffsetUpdate)
        ELSE Built(s.sql, s.values)

\* QueryBase.delete up to execute
buildDelete(cond, opt) ==
    LET s == Clauses([sql |-> "DELETE FROM " \o strWrap(Table), values |-> <<>>],
                     cond, opt, NoNum)
    IN  IF OrderThrows(opt) THEN Thrown(ETypeErrorOrder)
        ELSE IF Truthy(opt.offset) THEN Thrown(EOffsetDelete)
        ELSE Built(s.sql, s.values)

\* what the driver returns for 'SELECT LAST_INSERT_ID() as id': the id of a row is
\* null, a string of decimal digits or a number
LastIdSql == "SELECT LAST_INSERT_ID() as id"
IdNull == [kind |-> "null", digits |-> <<>>, n |-> 0]
IdStr(d) == [kind |-> "str", digits |-> d, n |-> 0]
IdNum(n) == [kind |-> "num", digits |-> <<>>, n |-> n]
Ids == {IdNull, IdStr(<<>>), IdStr(<<0>>), IdStr(<<1, 2, 3>>), IdStr(<<7>>), IdNum(0), IdNum(5)}
LastIdRows == {<<>>} \cup {<<i>> : i \in Ids} \cup {<<i, IdNum(9)>> : i \in Ids}

\* !id, String(id) === '0' and Number(id) of JavaScript
Falsy(id) ==
    \/ id.kind = "null"
    \/ id.kind = "str" /\ id.digits = <<>>
    \/ id.kind = "num" /\ id.n = 0
IsStringZero(id) ==
    \/ id.kind = "str" /\ id.digits = <<0>>
    \/ id.kind = "num" /\ id.n = 0
RECURSIVE DigitsValue(_)
DigitsValue(d) == IF d = <<>> THEN 0 ELSE 10 * DigitsValue(SubSeq(d, 1, Len(d) - 1)) + d[Len(d)]
Number(id) == IF id.kind = "num" THEN id.n ELSE DigitsValue(id.digits)

ENotPredictable ==
    "getLastInsertId is not predictable on pool connection, use a normal connection or transaction instead."
ENoLastId == "No LAST_INSERT_ID found"

\* a getLastInsertId that casts nothing found to 0
lastInsertId_NoCheck(rows) == [err |-> "none", ret |-> IF rows = <<>> THEN 0 ELSE Number(rows[1])]

\* QueryBase.getLastInsertId after execute: the error thrown or the number returned
lastInsertId(rows) ==
    IF rows = <<>> \/ Falsy(rows[1]) \/ IsStringZero(rows[1])
    THEN [err |-> ENoLastId, ret |-> 0]
    ELSE [err |-> "none", ret |-> Number(rows[1])]

\* the message of queryOne when it did not get one row
ExpectedOneRow(n, text) ==
    "Expected one row, got " \o ToString(n) \o " rows. Query: " \o text

\* a queryOne that is content with any first row
exactlyOne_First(n, text) == [err |-> "none", ret |-> 1]

\* QueryBase.queryOne / selectOne after execute, given the number n of rows the
\* driver returned: the error thrown, or the index of the row returned
exactlyOne(n, text) ==
    IF n # 1 THEN [err |-> ExpectedOneRow(n, text), ret |-> 0]
    ELSE [err |-> "none", ret |-> 1]

\* JSON.stringify of the arguments of selectOne (the text is not modelled)
ArgsJson == "{tableOrCols, tableOrCond, condOrOpts, opts}"

\* a getLastInsertId that takes no driver for a pool
thisIsPool_Never(inTx) == FALSE

\* this.isPool(this.driver) on the MySQL2Extended, or on a Transaction (whose driver
\* is its connection)
thisIsPool(inTx) == ~inTx /\ isPool(driver)

\* QueryBase.execute run to completion by a single caller, the hooks returning and
\* the driver accepting: getConnection, onQuery, con.query, closeConnection
Executed(sql, inTx) ==
    LET c == IF isPool(driver) THEN CHOOSE x \in poolGetConnection : TRUE ELSE FixedCon
        new == ~inTx /\ isNewConnection(driver, inited[c])
        l == IF new THEN onNewConnection(logs, c, "ok") ELSE logs
    IN  /\ hookCalls' = IF new THEN [hookCalls EXCEPT ![c] = @ + 1] ELSE hookCalls
        /\ inited' = IF isPool(driver) THEN [inited EXCEPT ![c] = TRUE] ELSE inited
        /\ onQueryCall' = [sql |-> sql, con |-> c, res |-> "ok"]
        /\ logs' = conQuery(l, c, sql, 0)
        /\ free' = closeConnectionFree([free EXCEPT ![c] = FALSE], c)
        /\ releases' = closeConnectionReleases(releases, c)

\* a call that throws or returns before execute
NotExecuted == UNCHANGED <<hookCalls, inited, onQueryCall, logs, free, releases>>

\* no call has been made on the instance yet
Fresh == request = NoCall

\* one call c on a fresh instance: b is what it built, after the result of execute
Run(c, b, inTx, after) ==
    /\ request' = c
    /\ IF b.sent THEN Executed(b.stmt.sql, inTx) ELSE NotExecuted
    /\ result' = [err |-> IF b.sent THEN after.err ELSE b.err, sent |-> b.sent,
                  stmt |-> b.stmt, ret |-> IF b.sent THEN after.ret ELSE 0]
    /\ UNCHANGED <<driver, conHasRelease, tx, termLog, proc, event, ncalls>>

Rows == [err |-> "none", ret |-> 0]

select ==
    /\ Fresh
    /\ \E cols \in ColSels, cond \in CondArgs, opt \in Opts :
           Run([op |-> "select", cols |-> cols, cond |-> cond, opt |-> opt],
               buildSelect(cols, cond, opt), FALSE, Rows)

selectOne ==
    /\ Fresh
    /\ \E cond \in CondArgs, n \in 0..MaxRet :
           Run([op |-> "selectOne", cond |-> cond, n |-> n],
               buildSelect([all |-> TRUE, list |-> <<>>], cond, NoOpts), FALSE,
               exactlyOne(n, ArgsJson))

queryOne ==
    /\ Fresh
    /\ \E n \in 0..MaxRet :
           Run([op |-> "queryOne", sql |-> UserSql, n |-> n],
               Built(UserSql, <<>>), FALSE, exactlyOne(n, UserSql))

insert ==
    /\ Fresh
    /\ \E data \in InsertData :
           Run([op |-> "insert", data |-> data], buildInsert(data, FALSE), FALSE, Rows)

upsert ==
    /\ Fresh
    /\ \E data \in InsertData :
           Run([op |-> "upsert", data |-> data], buildInsert(data, TRUE), FALSE, Rows)

update ==
    /\ Fresh
    /\ \E data \in DataMaps, cond \in CondArgs, opt \in Opts :
           Run([op |-> "update", data |-> data, cond |-> cond, opt |-> opt],
               buildUpdate(data, cond, opt), FALSE, Rows)

delete ==
    /\ Fresh
    /\ \E cond \in CondArgs, opt \in Opts :
           Run([op |-> "delete", cond |-> cond, opt |-> opt],
               buildDelete(cond, opt), FALSE, Rows)

getLastInsertId ==
    /\ Fresh
    /\ \E inTx \in BOOLEAN, rows \in LastIdRows :
           Run([op |-> "getLastInsertId", inTx |-> inTx, rows |-> rows],
               IF thisIsPool(inTx) THEN Thrown(ENotPredictable) ELSE Built(LastIdSql, <<>>),
               inTx, lastInsertId(rows))

BuildNext ==
    \/ select
    \/ selectOne
    \/ queryOne
    \/ insert
    \/ upsert
    \/ update
    \/ delete
    \/ getLastInsertId

Build == Init /\ [][BuildNext]_vars

----
\* Reading the driver's logs.

\* the statements Transaction t sent to connection c, in order
TxLog(t, c) == LET mine(e) == e.tx = t IN SelectSeq(logs[c], mine)

\* the SQL texts of a sequence of log entries
Sqls(l) == [i \in 1..Len(l) |-> l[i].sql]

\* the terminal statements (COMMIT, ROLLBACK) and the BEGINs of Transaction t on c
Terminals(t, c) == LET term(e) == e.tx = t /\ e.sql \in Actions IN SelectSeq(logs[c], term)
Begins(t, c) == LET beg(e) == e.tx = t /\ e.sql = "BEGIN" IN SelectSeq(logs[c], beg)

\* what connection c executed from the first statement of Transaction t on
Since(t, c) ==
    LET l == logs[c]
        own == {i \in 1..Len(l) : l[i].tx = t}
    IN  IF own = {} THEN <<>>
        ELSE SubSeq(l, CHOOSE i \in own : \A j \in own : i <= j, Len(l))

\* what connection c executed from the first to the last statement of Transaction t
Window(t, c) ==
    LET l == logs[c]
        own == {i \in 1..Len(l) : l[i].tx = t}
    IN  IF own = {} THEN <<>>
        ELSE SubSeq(l, CHOOSE i \in own : \A j \in own : i <= j,
                       CHOOSE i \in own : \A j \in own : i >= j)

\* C1: terminate-once.  On every Transaction only the first commit()/rollback()
\* call passes validateCleanAndMarkDirty; every later one is rejected with
\* 'Cannot <action> transaction. Already got <first action>' and sends nothing, so
\* at most one terminal statement, the first call's, is ever sent.
C1_TerminateOnce ==
    \A t \in Txs :
        LET calls == termLog[t]
            sent == [c \in Cons |-> Terminals(t, c)]
        IN  /\ \A i \in 1..Len(calls) :
                 calls[i].err =
                    IF i = 1 THEN "none"
                    ELSE "Cannot " \o calls[i].action \o " transaction. Already got "
                            \o calls[1].action
            /\ \A c \in Cons :
                 /\ Len(sent[c]) <= 1
                 /\ Len(sent[c]) = 1 =>
                       /\ calls # <<>>
                       /\ sent[c][1].sql = calls[1].action
                       /\ \A d \in Cons \ {c} : sent[d] = <<>>

\* a commit() that sent COMMIT, then a rollback() on the same Transaction
C1_Witness ==
    \E t \in Txs :
        /\ Len(termLog[t]) >= 2
        /\ termLog[t][1].action = "COMMIT"
        /\ termLog[t][2].action = "ROLLBACK"
        /\ \E c \in Cons : Terminals(t, c) # <<>>

\* C2: begin-once.  _begin() on a Transaction that has begun fails with
\* 'Transaction has already began' (it cannot get as far as a hook or the driver)
\* and sends no second BEGIN: a Transaction sends at most one BEGIN.
C2_BeginOnce ==
    /\ \A t \in Txs : \A c \in Cons : Len(Begins(t, c)) <= 1
    /\ (event.call = "_begin" /\ event.res \notin EnvErrors) => event.res = EAlreadyBegan

\* a managed transaction settled in the last step: the chain that ran it
Managed == event.call = "transaction"
MT == proc[event.p]

\* the callback only issued statements (it called neither commit() nor rollback()),
\* and no hook threw and the driver rejected nothing during the transaction
PlainRun == ~MT.cbCtl /\ ~MT.envFail

\* C3: managed transaction, failing callback.  When the callback throws after
\* issuing s1..sn, the statements sent on the transaction's connection are exactly
\* BEGIN, s1..sn, ROLLBACK: one BEGIN, one ROLLBACK, no COMMIT.
C3_FailingCallback ==
    (Managed /\ isPool(driver) /\ MT.cbEnd = "threw" /\ PlainRun) =>
        Sqls(Window(MT.mtx, tx[MT.mtx].con)) = <<"BEGIN">> \o MT.issued \o <<"ROLLBACK">>

\* C4: managed transaction, error identity.  Whatever the callback did on the
\* handle before throwing E, commit() and rollback() included, transaction()
\* rejects with exactly E.
C4_ErrorIdentity ==
    (Managed /\ MT.cbEnd = "threw" /\ ~MT.envFail) => event.res = ECallback

\* C5: managed transaction, successful callback.  When the callback returns after
\* issuing s1..sn, the statements sent on the transaction's connection are exactly
\* BEGIN, s1..sn, COMMIT, and transaction() resolves with r after the COMMIT.
C5_SuccessfulCallback ==
    (Managed /\ isPool(driver) /\ MT.cbEnd = "returned" /\ PlainRun) =>
        /\ event.res = "r"
        /\ Sqls(Window(MT.mtx, tx[MT.mtx].con)) = <<"BEGIN">> \o MT.issued \o <<"COMMIT">>

\* the number k of the statement Stmt(k)
StmtNo(sql) == CHOOSE k \in 1..(MaxCalls + 1) : Stmt(k) = sql

C7_Ownership ==
    isPool(driver) =>
        \A t \in Txs :
            (tx[t].exists /\ termLog[t] = <<>>) =>
                /\ ~free[tx[t].con]
                /\ \A i \in 1..Len(Since(t, tx[t].con)) : Since(t, tx[t].con)[i].tx = t

\* C8: no leak on success.  When a pool-backed operation completes successfully (a
\* query on the MySQL2Extended, a commit() or rollback(), a managed transaction that
\* committed or rolled back), its connection is back in the pool.
C8_NoLeakOnSuccess ==
    (/\ isPool(driver)
     /\ \/ event.call \in {"query"} \cup Actions /\ event.res = "ok"
        \/ Managed /\ event.res \in {"r", ECallback}) =>
        free[event.con]

\* the COMMIT of a transaction begun on a pool completes
C8_Witness ==
    /\ isPool(driver)
    /\ event.call = "COMMIT" /\ event.res = "ok"
    /\ releases[event.con] >= 2

\* C9: release on failure.  When a pool-backed query or begin() fails after its
\* connection was acquired (the driver rejects the statement, or onQuery or
\* onNewConnection throws), the connection is released to the pool.
C9_ReleaseOnFailure ==
    (isPool(driver) /\ event.call \in {"query", "begin"} /\ event.res \in EnvErrors) =>
        free[event.con]

\* C10: a MySQL2Extended over a fixed single connection sends every statement to
\* that connection and never calls release() on it, whether or not the connection
\* has a release method.
C10_FixedNeverReleased ==
    ~isPool(driver) =>
        /\ \A c \in Cons \ {FixedCon} : logs[c] = <<>>
        /\ releases[FixedCon] = 0

\* the statements the library sent to connection c (the hook's own are not among them)
LibLog(l) == LET lib(e) == e.sql # HookSql IN SelectSeq(l, lib)

\* C11: the onNewConnection hook is invoked at most once per physical connection,
\* for a pool and for a fixed single connection alike, however many operations use
\* the connection.
C11_HookOncePerConnection == \A c \in Cons : hookCalls[c] <= 1

\* C12: the onNewConnection hook has completed, its own statement included, before
\* onQuery is called and before the triggering statement is sent: the first
\* statement of every connection is the hook's, and whenever onQuery is called for
\* a connection the hook's statement is already in that connection's order, before
\* the statement onQuery announces.
C12_HookBeforeStatement ==
    \A c \in Cons :
        /\ logs[c] # <<>> => logs[c][1].sql = HookSql
        /\ onQueryCall.con = c =>
              \E i \in 1..Len(logs[c]) :
                  /\ logs[c][i].sql = HookSql
                  /\ onQueryCall.res = "ok" => i < Len(logs[c])
        /\ \A p \in Procs :
              (proc[p].pc = "gotcon" /\ proc[p].con = c) =>
                  \E i \in 1..Len(logs[c]) : logs[c][i].sql = HookSql

\* a pool connection used for the first time: the hook's statement, then the query
C12_Witness ==
    /\ isPool(driver)
    /\ event.call = "query" /\ event.res = "ok"
    /\ Sqls(logs[event.con]) = <<HookSql, UserSql>>
    /\ hookCalls[event.con] = 1

----
\* Claims about one call on a fresh instance (specification Build).

\* no connection was acquired, no hook was called and no statement was sent
NothingDone ==
    /\ onQueryCall = NoOnQuery
    /\ \A c \in Cons :
          /\ logs[c] = <<>>
          /\ hookCalls[c] = 0
          /\ ~inited[c]
          /\ releases[c] = 0
          /\ free[c] = isPool(driver)

\* C14: getLastInsertId() on an instance whose driver is a pool is rejected with
\* the 'not predictable on pool connection' error; no connection is acquired, no
\* hook is called and no statement is sent, whatever the driver would return.
C14_LastInsertIdOnPool ==
    (request.op = "getLastInsertId" /\ ~request.inTx /\ isPool(driver)) =>
        /\ result.err =
              "getLastInsertId is not predictable on pool connection, use a normal connection or transaction instead."
        /\ ~result.sent
        /\ NothingDone

\* getLastInsertId() on a pool whose connections would return the id '123'
C14_Witness ==
    /\ request.op = "getLastInsertId" /\ ~request.inTx /\ isPool(driver)
    /\ request.rows = <<IdStr(<<1, 2, 3>>)>>
    /\ result.err # "none"

\* the number a last-insert-id value stands for
IdNumber(id) ==
    CASE id = IdStr(<<1, 2, 3>>) -> 123
      [] id = IdStr(<<7>>) -> 7
      [] id = IdNum(5) -> 5
      [] id = IdNum(9) -> 9
      [] OTHER -> 0

\* C15: getLastInsertId() on a fixed connection or inside a transaction sends
\* exactly one 'SELECT LAST_INSERT_ID() as id' on that connection and returns the id
\* of the first row as a number; it fails with 'No LAST_INSERT_ID found' when no
\* row is returned or the id is null, empty or zero.
C15_LastInsertId ==
    (request.op = "getLastInsertId" /\ (request.inTx \/ ~isPool(driver))) =>
        LET rows == request.rows
            none == \/ rows = <<>>
                    \/ rows[1].kind = "null"
                    \/ rows[1].kind = "str" /\ rows[1].digits \in {<<>>, <<0>>}
                    \/ rows[1].kind = "num" /\ rows[1].n = 0
        IN  /\ result.sent
            /\ result.stmt.sql = "SELECT LAST_INSERT_ID() as id"
            /\ \E c \in Cons :
                  /\ ~isPool(driver) => c = FixedCon
                  /\ Sqls(LibLog(logs[c])) = <<"SELECT LAST_INSERT_ID() as id">>
                  /\ \A d \in Cons \ {c} : logs[d] = <<>>
            /\ IF none THEN result.err = "No LAST_INSERT_ID found"
               ELSE result.err = "none" /\ result.ret = IdNumber(rows[1])

\* inside a transaction on a pool the driver returns the id '123': 123 is returned
C15_Witness ==
    /\ request.op = "getLastInsertId" /\ request.inTx /\ isPool(driver)
    /\ request.rows = <<IdStr(<<1, 2, 3>>)>>
    /\ result.err = "none" /\ result.ret = 123

RECURSIVE Separated(_, _)
Separated(s, sep) ==
    IF Len(s) = 1 THEN s[1]
    ELSE Separated(SubSeq(s, 1, Len(s) - 1), sep) \o sep \o s[Len(s)]

\* a select of all columns with a condition of at least one key and no options
PlainSelect ==
    /\ request.op = "select" /\ request.cols.all
    /\ request.cond.present /\ Len(request.cond.map) >= 1
    /\ ~request.opt.order.present /\ request.opt.limit = NoNum

\* C17: condition compilation.  For a condition with keys k1..kn (n >= 1) the
\* WHERE clause has n clauses in key order joined by ' AND ': 'k IS NULL' for a
\* null (binding nothing), 'k IN(?)' for a list (binding the list as one value),
\* 'k = ?' otherwise (binding the scalar); the binds are in clause order.
C17_WhereCondition ==
    PlainSelect =>
        LET m == request.cond.map
            text(e) == CASE e.v.kind = "null" -> "^" \o e.k \o "^ IS NULL"
                         [] e.v.kind = "list" -> "^" \o e.k \o "^ IN(?)"
                         [] OTHER -> "^" \o e.k \o "^ = ?"
            bound(e) == e.v.kind # "null"
            binds == SelectSeq(m, bound)
        IN  /\ result.stmt.sql =
                  "SELECT * FROM ^t^ WHERE "
                     \o Separated([i \in 1..Len(m) |-> text(m[i])], " AND ")
            /\ Len(result.stmt.values) = Len(binds)
            /\ \A i \in 1..Len(binds) : result.stmt.values[i] = binds[i].v

\* a list, a null and a scalar, in that key order
C17_Witness ==
    /\ PlainSelect
    /\ Keys(request.cond.map) = <<"b", "c", "a">>
    /\ result.stmt.sql = "SELECT * FROM ^t^ WHERE ^b^ IN(?) AND ^c^ IS NULL AND ^a^ = ?"
    /\ result.stmt.values = <<List(<<7, 8>>), Scalar(7)>>

\* C18: limit/offset compilation in select.  For a limit >= 1, a non-zero offset
\* renders ' LIMIT ?, ?' and appends the binds (offset, limit) after all condition
\* binds; an absent or zero offset renders ' LIMIT ?' and appends only the limit.
C18_LimitOffset ==
    (request.op = "select" /\ request.opt.limit >= 1 /\ result.sent) =>
        LET opt == request.opt
            before == buildSelect(request.cols, request.cond,
                                  [opt EXCEPT !.limit = NoNum, !.offset = NoNum]).stmt
        IN  IF opt.offset # NoNum /\ opt.offset # 0
            THEN /\ result.stmt.sql = before.sql \o " LIMIT ?, ?"
                 /\ result.stmt.values =
                       before.values \o <<Scalar(opt.offset), Scalar(opt.limit)>>
            ELSE /\ result.stmt.sql = before.sql \o " LIMIT ?"
                 /\ result.stmt.values = before.values \o <<Scalar(opt.limit)>>

\* a condition that binds a value, then limit 2 with offset 1
C18_Witness ==
    /\ request.op = "select" /\ request.cols.all /\ ~request.opt.order.present
    /\ request.opt.limit = 2 /\ request.opt.offset = 1
    /\ result.stmt.sql = "SELECT * FROM ^t^ WHERE ^a^ = ? LIMIT ?, ?"
    /\ result.stmt.values = <<Scalar(7), Scalar(1), Scalar(2)>>

\* the rows of an insert or upsert call
RowsOf(data) == IF data.isArray THEN data.value ELSE <<data.value>>

\* an insert of n >= 1 rows that all list the keys of the first row, in its order
UniformInsert ==
    /\ request.op = "insert"
    /\ RowsOf(request.data) # <<>>
    /\ \A i \in 1..Len(RowsOf(request.data)) :
          Keys(RowsOf(request.data)[i]) = Keys(RowsOf(request.data)[1])

\* C19: bulk insert.  For one row or n >= 1 uniform rows with k columns, insert
\* renders the first row's keys, quoted and in order, as the column list, n value
\* groups of k placeholders, and binds the n * k values in row-major order; a
\* single row is treated as the one-element list.
C19_BulkInsert ==
    UniformInsert =>
        LET rows == RowsOf(request.data)
            n == Len(rows)
            cols == Keys(rows[1])
            k == Len(cols)
            group == "(" \o Separated([j \in 1..k |-> "?"], ", ") \o ")"
        IN  /\ result.sent
            /\ result.stmt.sql =
                  "INSERT INTO ^t^ ("
                     \o Separated([j \in 1..k |-> "^" \o cols[j] \o "^"], ", ")
                     \o ") VALUES " \o Separated([i \in 1..n |-> group], ", ")
            /\ Len(result.stmt.values) = n * k
            /\ \A i \in 1..n : \A j \in 1..k :
                  result.stmt.values[(i - 1) * k + j] = rows[i][j].v

\* two rows with the columns a, b
C19_Witness ==
    /\ UniformInsert
    /\ request.data.isArray
    /\ result.stmt.sql = "INSERT INTO ^t^ (^a^, ^b^) VALUES (?, ?), (?, ?)"
    /\ result.stmt.values = <<Scalar(11), Scalar(12), Scalar(21), Scalar(22)>>

\* C20: insert and upsert with an empty row list are rejected with 'There must be
\* atleast one row to insert.' before any connection is acquired, any hook is
\* called or any statement is sent.
C20_EmptyInsert ==
    (request.op \in {"insert", "upsert"} /\ RowsOf(request.data) = <<>>) =>
        /\ result.err = "There must be atleast one row to insert."
        /\ ~result.sent
        /\ NothingDone

\* upsert with an empty list was rejected
C20_Witness ==
    /\ request.op = "upsert" /\ request.data.isArray /\ request.data.value = <<>>
    /\ result.err # "none"

\* C21: every update() or delete() call whose options supply a non-zero offset is
\* rejected with 'offset not supported on updates using MySQL' / '... deletes ...',
\* whatever the data, condition, order and limit are; no connection is acquired
\* and no statement is sent.
C21_OffsetRejected ==
    (request.op \in {"update", "delete"} /\ request.opt.offset # NoNum
        /\ request.opt.offset # 0) =>
        /\ result.err = IF request.op = "update"
                        THEN "offset not supported on updates using MySQL"
                        ELSE "offset not supported on deletes using MySQL"
        /\ ~result.sent
        /\ NothingDone

\* C22: update() with a data map of zero keys is a no-op: it resolves without
\* acquiring a connection, calling onQuery or onNewConnection, or sending any
\* statement, for every condition and every options value.
C22_EmptyUpdate ==
    (request.op = "update" /\ request.data = <<>>) =>
        /\ result.err = "none"
        /\ ~result.sent
        /\ NothingDone

\* an update of no column, with a condition, a limit and an offset, has resolved
C22_Witness ==
    /\ request.op = "update" /\ request.data = <<>>
    /\ request.cond.present /\ request.cond.map # <<>>
    /\ request.opt.limit = 2 /\ request.opt.offset = 1
    /\ result.err = "none"

\* C23: upsert renders the SQL and the bind list that insert renders for the same
\* rows, followed by ' ON DUPLICATE KEY UPDATE ' and one assignment
\* 'c = COALESCE(VALUES(c), c)' (c quoted) per column of the first row, in column
\* order and comma-joined, for a single row and for a list of rows; the suffix
\* adds no bind values.
C23_Upsert ==
    (request.op = "upsert" /\ RowsOf(request.data) # <<>>) =>
        LET cols == Keys(RowsOf(request.data)[1])
            asInsert == buildInsert(request.data, FALSE).stmt
            assign(c) == "^" \o c \o "^ = COALESCE(VALUES(^" \o c \o "^), ^" \o c \o "^)"
        IN  /\ result.sent
            /\ result.stmt.sql =
                  asInsert.sql \o " ON DUPLICATE KEY UPDATE "
                     \o Separated([j \in 1..Len(cols) |-> assign(cols[j])], ", ")
            /\ result.stmt.values = asInsert.values

\* a list of two rows with the columns b, a has been upserted
C23_Witness ==
    /\ request.op = "upsert" /\ request.data.isArray
    /\ result.stmt.sql =
          "INSERT INTO ^t^ (^b^, ^a^) VALUES (?, ?), (?, ?) ON DUPLICATE KEY UPDATE ^b^ = COALESCE(VALUES(^b^), ^b^), ^a^ = COALESCE(VALUES(^a^), ^a^)"
    /\ result.stmt.values = <<Scalar(11), Scalar(12), Scalar(21), Scalar(22)>>

\* what a select, update or delete call builds for its arguments with other options
BuiltWith(opt) ==
    CASE request.op = "select" -> buildSelect(request.cols, request.cond, opt)
      [] request.op = "update" -> buildUpdate(request.data, request.cond, opt)
      [] request.op = "delete" -> buildDelete(request.cond, opt)

\* a select, update or delete with an order, which no other rule rejects or skips
OrderedCall ==
    /\ request.op \in {"select", "update", "delete"}
    /\ request.opt.order.present
    /\ request.op = "update" => request.data # <<>>
    /\ request.op # "select" => ~Truthy(request.opt.offset)

\* C24: order compilation in select, update and delete.  A single (column,
\* direction) pair renders as the one-element list holding it; a list of pairs
\* renders ' ORDER BY ' followed by one 'col DIR' item (col quoted, direction
\* upper-cased) per pair, in input order and comma-joined, between the condition
\* and the limit; ordering adds no bind values.
C24_OrderCompilation ==
    OrderedCall =>
        LET opt == request.opt
            pairs == opt.order.pairs
            upper(dir) == IF dir \in {"asc", "ASC"} THEN "ASC" ELSE "DESC"
            item(o) == "^" \o o[1] \o "^ " \o upper(o[2])
            items == IF pairs = <<>> THEN ""
                     ELSE Separated([i \in 1..Len(pairs) |-> item(pairs[i])], ", ")
            bare == BuiltWith([opt EXCEPT !.order = NoOpts.order, !.limit = NoNum]).stmt
            unordered == BuiltWith([opt EXCEPT !.order = NoOpts.order]).stmt
            limit == IF ~Truthy(opt.limit) THEN ""
                     ELSE IF request.op = "select" /\ Truthy(opt.offset) THEN " LIMIT ?, ?"
                     ELSE " LIMIT ?"
        IN  /\ result.sent
            /\ result.stmt.sql = bare.sql \o " ORDER BY " \o items \o limit
            /\ result.stmt.values = unordered.values

\* the positions of the placeholders of a text, and the n-th of them
Placeholders(s) == {i \in 1..Len(s) : SubSeq(s, i, i) = "?"}
NthOf(S, n) == CHOOSE p \in S : Cardinality({q \in S : q < p}) = n - 1

\* the value an object binds to a key
ValueAt(o, k) == o[CHOOSE i \in 1..Len(o) : o[i].k = k].v

\* the value that belongs to the placeholder at position p of the text s of the
\* call: read off the text around it.  'c = ?' before any WHERE is an assignment
\* of the data map, 'c = ?' and 'c IN(?)' after it are conditions, and the
\* placeholders after LIMIT are the offset (when two) and the limit.
BelongsTo(s, p) ==
    LET inWhere == \E i \in 1..(p - 7) : SubSeq(s, i, i + 6) = " WHERE "
        obj == IF inWhere THEN request.cond.map ELSE request.data
    IN  CASE SubSeq(s, p - 3, p) = " = ?" -> ValueAt(obj, SubSeq(s, p - 5, p - 5))
          [] SubSeq(s, p - 3, p) = "IN(?" -> ValueAt(obj, SubSeq(s, p - 6, p - 6))
          [] SubSeq(s, p - 2, p) = ", ?" -> Scalar(request.opt.limit)
          [] SubSeq(s, p - 6, p) = "LIMIT ?" ->
                IF p + 3 <= Len(s) /\ SubSeq(s, p + 1, p + 3) = ", ?"
                THEN Scalar(request.opt.offset) ELSE Scalar(request.opt.limit)

\* C25: placeholder/bind alignment.  For every statement sent by select, update
\* or delete the number of placeholders in the SQL text equals the length of the
\* bind list and the i-th bind value belongs to the i-th placeholder: the SET
\* values first, then the WHERE values (a null condition contributing none),
\* then offset and limit.
C25_Alignment ==
    (request.op \in {"select", "update", "delete"} /\ result.sent) =>
        LET s == result.stmt.sql
            v == result.stmt.values
            set == IF request.op = "update" THEN Len(request.data) ELSE 0
            bound(e) == e.v.kind # "null"
            where == IF request.cond.present
                     THEN Len(SelectSeq(request.cond.map, bound)) ELSE 0
        IN  /\ Cardinality(Placeholders(s)) = Len(v)
            /\ \A i \in 1..Len(v) : v[i] = BelongsTo(s, NthOf(Placeholders(s), i))
            /\ \A i \in 1..Len(v) :
                  LET p == NthOf(Placeholders(s), i)
                  IN  /\ i <= set <=>
                             /\ ~(\E j \in 1..(p - 7) : SubSeq(s, j, j + 6) = " WHERE ")
                             /\ SubSeq(s, p - 3, p) = " = ?"
                      /\ i > set + where <=>
                             (SubSeq(s, p - 2, p) = ", ?" \/ SubSeq(s, p - 6, p) = "LIMIT ?")

\* an update of two columns with a list, a null and a scalar condition and a limit
C25_Witness ==
    /\ request.op = "update"
    /\ result.stmt.sql =
          "UPDATE ^t^ SET ^a^ = ?, ^b^ = ? WHERE ^b^ IN(?) AND ^c^ IS NULL AND ^a^ = ? LIMIT ?"
    /\ result.stmt.values =
          <<Scalar(1), Scalar(2), List(<<7, 8>>), Scalar(7), Scalar(2)>>

\* the set of keys of an object
KeySet(o) == {o[i].k : i \in 1..Len(o)}

\* C26: insert binds by column.  For every insert whose rows all have the first
\* row's key set, in whatever key order each row lists them, the value bound to
\* the j-th placeholder of the i-th value group is row i's value for the j-th
\* column of the rendered column list.
C26_InsertByColumn ==
    (/\ request.op = "insert"
     /\ RowsOf(request.data) # <<>>
     /\ \A i \in 1..Len(RowsOf(request.data)) :
           KeySet(RowsOf(request.data)[i]) = KeySet(RowsOf(request.data)[1])) =>
        LET rows == RowsOf(request.data)
            cols == Keys(rows[1])
            k == Len(cols)
        IN  /\ result.sent
            /\ Len(result.stmt.values) = Len(rows) * k
            /\ \A i \in 1..Len(rows) : \A j \in 1..k :
                  result.stmt.values[(i - 1) * k + j] = ValueAt(rows[i], cols[j])

----
\* Claims about the transaction lifecycle (specification Spec), continued.

\* C27: managed transaction, failing COMMIT.  When the callback returns normally
\* but the driver rejects the COMMIT statement, transaction() sends a ROLLBACK on
\* the transaction's connection and rejects with the COMMIT failure itself, not
\* with a state-violation error.
C27_FailingCommit ==
    (Managed /\ MT.cbEnd = "returned" /\ MT.err = EDriver) =>
        /\ event.res = EDriver
        /\ \E i \in 1..Len(TxLog(MT.mtx, tx[MT.mtx].con)) :
              TxLog(MT.mtx, tx[MT.mtx].con)[i].sql = "ROLLBACK"

\* C28: once a Transaction has committed or rolled back, no further statement
\* issued through that handle is sent to its connection.  As a step property:
\* when commit() or rollback() of a Transaction has just resolved, the next step
\* sends no statement of that Transaction.
C28_TerminalIsFinal ==
    [][\A t \in Txs :
          (event.call \in {"COMMIT", "ROLLBACK"} /\ event.t = t /\ event.res = "ok") =>
              \A c \in Cons : TxLog(t, c)' = TxLog(t, c)]_vars

----
\* Claims about one call on a fresh instance (specification Build), continued.

\* what a select, update or delete call builds for its arguments with another
\* condition
BuiltFor(cond) ==
    CASE request.op = "select" -> buildSelect(request.cols, cond, request.opt)
      [] request.op = "update" -> buildUpdate(request.data, cond, request.opt)
      [] request.op = "delete" -> buildDelete(cond, request.opt)

\* the positions at which the text s holds the word w
Occurrences(s, w) == {i \in 1..(Len(s) - Len(w) + 1) : SubSeq(s, i, i + Len(w) - 1) = w}

\* C29: select, update and delete render a WHERE clause only when the condition
\* has at least one key: a condition of zero keys yields the SQL text and the
\* bind list of an absent condition, and every rendered WHERE is followed by at
\* least one clause.
C29_EmptyCondition ==
    request.op \in {"select", "update", "delete"} =>
        /\ (request.cond.present /\ request.cond.map = <<>>) =>
               /\ result.sent = BuiltFor([present |-> FALSE, map |-> <<>>]).sent
               /\ result.stmt = BuiltFor([present |-> FALSE, map |-> <<>>]).stmt
        /\ result.sent =>
               \A i \in Occurrences(result.stmt.sql, " WHERE ") :
                   /\ i + 7 <= Len(result.stmt.sql)
                   /\ SubSeq(result.stmt.sql, i + 7, i + 7) = "^"

\* C30: select renders a LIMIT clause exactly when a limit is supplied, for every
\* non-negative limit, 0 included: a supplied limit produces a LIMIT clause that
\* binds it, and an offset supplied without a limit produces no LIMIT clause and
\* no bind value.
C30_LimitSupplied ==
    (request.op = "select" /\ result.sent) =>
        LET s == result.stmt.sql
            v == result.stmt.values
            opt == request.opt
        IN  /\ opt.limit # NoNum <=> Occurrences(s, " LIMIT ?") # {}
            /\ opt.limit # NoNum => (v # <<>> /\ v[Len(v)] = Scalar(opt.limit))
            /\ opt.limit = NoNum =>
                   result.stmt = BuiltWith([opt EXCEPT !.offset = NoNum]).stmt
====
